---- MODULE Spec2Model ----
(***************************************************************************)
(* Irrigation controller: zone controller (zone_manager.py), run-state     *)
(* store (program_state.py) and program scheduler/executor                 *)
(* (program_manager.py), with the callers in main.py and web_server.py.    *)
(*                                                                         *)
(* Outputs are active-low in the code (value(0) = on); here an output is   *)
(* TRUE when it is energized.                                              *)
(*                                                                         *)
(* program_state.py owns program_running/current_program_id.  The modules  *)
(* program_manager.py and zone_manager.py bind those names with            *)
(* "from program_state import ...", which copies the value at import time: *)
(* each module then has its own global.  The model keeps the three copies  *)
(* apart: ps_* (program_state), pm_* (program_manager), zm_running         *)
(* (zone_manager).                                                         *)
(***************************************************************************)
EXTENDS Integers, Sequences, FiniteSets, TLC

\* ---------------------------------------------------------------- bounds
NumZones == 2            \* configured zones are 0 .. NumZones-1
MaxTimers == 3           \* auto-off timer tasks that can be pending at once
NumApiTasks == 1         \* concurrent /start_program requests
MaxPrograms == 2         \* programs that /save_program lets the store hold at once
PollsPerMinute == 1      \* step-wait polls per minute of duration (code: 60/10)
MaxFaultyOps == 1        \* operations of one run in which an output write raises
MaxZoneDuration == 1     \* the setting max_zone_duration, in minutes
ActivationDelayPolls == 1 \* the setting activation_delay, in polls of the wait loop

\* ------------------------------------------------------ program constants
MaxActiveZones == 1      \* settings.get('max_active_zones', 1)

Null == "null"                           \* None, for string-valued fields
NoZone == -1                             \* a free timer slot
NoDate == 0                              \* last_run_date absent
Zones == 0 .. (NumZones - 1)
UnknownZone == NumZones                  \* an id with no pin bound
ZoneIds == Zones \cup {UnknownZone}
Durations == 0 .. (MaxZoneDuration + 1)
TimerIds == 1 .. MaxTimers
ProgIds == {"1", "2", "3"}                \* keys of program.json
Sched == 0                               \* the program_check_loop task
ApiTasks == 1 .. NumApiTasks             \* /start_program handler tasks
Tasks == {Sched} \cup ApiTasks

Manual == -1                             \* a start asked by /start_zone, not by a task
NoEntry == [duration |-> 0, task |-> 0, by |-> -2]

VARIABLES
    booted,          \* main() has finished its start-up phases
    active_zones,    \* zone_manager.active_zones: zone -> entry or NoEntry
    zone_pins,       \* zone output energized
    safety_relay,    \* master relay energized
    zone_timers,     \* pending _zone_timer tasks: timer id -> zone or NoZone
    relay_fault,     \* history: some write to the relay has raised
    pin_fault,       \* history: some write to a zone output has raised
    faulty_ops,      \* history: operations that were given a fault so far
    ps_running, ps_id,   \* program_state.program_running / current_program_id
    pm_running, pm_id,   \* program_manager's copies
    zm_running,          \* zone_manager's copy of program_running
    state_file,      \* /data/program_state.json
    tasks,           \* per task: position in check_programs / execute_program
    last_run_date,   \* program id -> day or NoDate (program.json)
    today,           \* current calendar day
    programs,        \* program.json, schedule fields: program id -> record or NoProgram
    now,             \* time.localtime(): year, month, day, hour, minute
    ret              \* history: what the handler that just ran returned

vars == <<booted, active_zones, zone_pins, safety_relay, zone_timers, relay_fault,
          pin_fault, ps_running, ps_id, pm_running, pm_id, zm_running, state_file,
          tasks, last_run_date, today, programs, now, ret, faulty_ops>>

\* ------------------------------------------------------------ run-state store
\* Content of the file: absent, not JSON, or a JSON object whose two keys
\* may be missing (Null).
FileRecord(run, id) == [kind |-> "ok", running |-> run, id |-> id]
FileMissing == [kind |-> "missing", running |-> Null, id |-> Null]
FileCorrupt == [kind |-> "corrupt", running |-> Null, id |-> Null]
FileStates == {FileMissing, FileCorrupt} \cup
              {FileRecord(r, i) : r \in {"true", "false", Null}, i \in ProgIds \cup {Null}}

\* The store as a value: in-memory flags of program_state.py plus the file.
Store(run, id, file) == [run |-> run, id |-> id, file |-> file]

CurStore == Store(ps_running, ps_id, state_file)

\* save_program_state / verify_save without I/O fault: the file holds the
\* in-memory pair of program_state.py, and the read-back matches.
SaveProgramStateMutant(st) ==
    [st EXCEPT !.file = FileRecord(IF st.run THEN "true" ELSE "false", Null)]
SaveProgramState(st) ==
    [st EXCEPT !.file = FileRecord(IF st.run THEN "true" ELSE "false", st.id)]

\* load_program_state, OSError / ValueError: keep a running state, else the
\* default; re-save
LoadFallbackMutant(st) ==
    IF st.run THEN st ELSE [st EXCEPT !.run = FALSE, !.id = Null]
LoadFallback(st) ==
    SaveProgramState(IF st.run THEN st ELSE [st EXCEPT !.run = FALSE, !.id = Null])

\* load_program_state
LoadProgramState(st) ==
    IF st.file.kind # "ok"
    THEN LoadFallback(st)
    ELSE LET lr == st.file.running
             lid == st.file.id
             keep == lr = "false" /\ st.run
             \* "mantenuto stato attivo": re-save the in-memory state
             s1 == IF lr = Null THEN st
                   ELSE IF keep THEN SaveProgramState(st)
                   ELSE [st EXCEPT !.run = (lr = "true")]
             s2 == IF lid # Null THEN [s1 EXCEPT !.id = lid]
                   ELSE IF lr # "true" THEN [s1 EXCEPT !.id = Null]
                   ELSE s1
         IN s2

\* --------------------------------------------------------------- zone controller
ZoneState == [active |-> active_zones, pins |-> zone_pins, relay |-> safety_relay,
              timers |-> zone_timers, rfault |-> relay_fault, pfault |-> pin_fault,
              raised |-> {}]

SetZoneState(zs) ==
    /\ active_zones' = zs.active
    /\ zone_pins' = zs.pins
    /\ safety_relay' = zs.relay
    /\ zone_timers' = zs.timers
    /\ relay_fault' = zs.rfault
    /\ pin_fault' = zs.pfault
    /\ faulty_ops' = IF zs.raised # {} THEN faulty_ops + 1 ELSE faulty_ops

ActiveSet(zs) == {z \in Zones : zs.active[z] # NoEntry}

\* get_active_zones_count
ActiveCount(zs) == Cardinality(ActiveSet(zs))

\* Hardware faults of one operation: the zone outputs whose writes raise, and
\* whether the first / the second write to the relay raises.  zs.raised
\* collects the kinds of write that did raise in the operation.
NoFault == [pins |-> {}, rA |-> FALSE, rB |-> FALSE]
AllFaults == {NoFault, [NoFault EXCEPT !.rA = TRUE], [NoFault EXCEPT !.rB = TRUE]}
             \cup {[NoFault EXCEPT !.pins = {z}] : z \in Zones}
Faults == IF faulty_ops < MaxFaultyOps THEN AllFaults ELSE {NoFault}

FreeTimers(zs) == {i \in TimerIds : zs.timers[i] = NoZone}
HasFreeTimer(zs) == FreeTimers(zs) # {}
NewTimer(zs) == CHOOSE i \in FreeTimers(zs) : \A j \in FreeTimers(zs) : i <= j

\* task.cancel() on the timer task recorded in a zone's entry; cancelling a
\* task that has already finished changes nothing
CancelTimerMutant(timers, tid, zone_id) == timers
CancelTimer(timers, tid, zone_id) ==
    IF tid \in TimerIds /\ timers[tid] = zone_id
    THEN [timers EXCEPT ![tid] = NoZone] ELSE timers

\* start_zone: the capacity rule
CapacityReachedMutant(zs, zone_id) == FALSE
CapacityReached(zs, zone_id) ==
    ActiveCount(zs) >= MaxActiveZones /\ zone_id \notin ActiveSet(zs)

\* start_zone(zone_id, duration); "running" is zone_manager's program_running,
\* "by" records who asked (not program state).  Result: [zs, ok].
StartZone(zs, running, zone_id, duration, by, f) ==
    IF running THEN [zs |-> zs, ok |-> FALSE]
    ELSE IF zone_id \notin Zones THEN [zs |-> zs, ok |-> FALSE]
    ELSE IF duration <= 0 \/ duration > MaxZoneDuration THEN [zs |-> zs, ok |-> FALSE]
    ELSE IF CapacityReached(zs, zone_id) THEN [zs |-> zs, ok |-> FALSE]
    ELSE
      LET first == ActiveSet(zs) = {}
          old_task == zs.active[zone_id].task
      IN IF first /\ f.rA
         THEN [zs |-> [zs EXCEPT !.rfault = TRUE, !.raised = @ \cup {"relay"}], ok |-> FALSE]
         ELSE
           LET z1 == IF first THEN [zs EXCEPT !.relay = TRUE] ELSE zs
           IN IF zone_id \in f.pins
              THEN \* zone write raised: restore the relay if this was the first
                   [zs |-> [z1 EXCEPT !.pfault = TRUE, !.raised = @ \cup {"pin"},
                                      !.relay = IF first /\ ~f.rB THEN FALSE ELSE @,
                                      !.rfault = IF first /\ f.rB THEN TRUE ELSE @],
                    ok |-> FALSE]
              ELSE LET tid == NewTimer(z1)
                       t1 == [CancelTimer(z1.timers, old_task, zone_id) EXCEPT ![tid] = zone_id]
                   IN [zs |-> [z1 EXCEPT !.pins[zone_id] = TRUE,
                                         !.timers = t1,
                                         !.active[zone_id] =
                                             [duration |-> duration, task |-> tid, by |-> by]],
                       ok |-> TRUE]

\* stop_zone / _safe_stop_zone: was_last_active
WasLastActiveMutant(zs, zone_id) == FALSE
WasLastActive(zs, zone_id) ==
    zs.active[zone_id] # NoEntry /\ ActiveCount(zs) = 1

\* stop_zone(zone_id), called from a task other than the zone's timer.
StopZoneMutant(zs, zone_id, f) ==
    [zs |-> [zs EXCEPT !.relay = FALSE], ok |-> TRUE]
StopZoneListedOnlyMutant(zs, zone_id, f) ==
    IF zone_id \notin Zones \/ zs.active[zone_id] = NoEntry THEN [zs |-> zs, ok |-> FALSE]
    ELSE [zs |-> [zs EXCEPT !.pins[zone_id] = FALSE,
                            !.timers = CancelTimer(@, zs.active[zone_id].task, zone_id),
                            !.active[zone_id] = NoEntry,
                            !.relay = @ /\ ActiveSet(zs) # {zone_id}],
          ok |-> TRUE]
StopZone(zs, zone_id, f) ==
    IF zone_id \notin Zones THEN [zs |-> zs, ok |-> FALSE]
    ELSE
      LET was_last == WasLastActive(zs, zone_id)
      IN IF zone_id \in f.pins
         THEN [zs |-> [zs EXCEPT !.pfault = TRUE, !.raised = @ \cup {"pin"}], ok |-> FALSE]
         ELSE
           LET z1 == [zs EXCEPT !.pins[zone_id] = FALSE,
                                !.timers = CancelTimer(@, zs.active[zone_id].task, zone_id),
                                !.active[zone_id] = NoEntry]
           IN IF was_last /\ ActiveSet(z1) = {}
              THEN IF f.rA
                   THEN [zs |-> [z1 EXCEPT !.rfault = TRUE, !.raised = @ \cup {"relay"}], ok |-> FALSE]
                   ELSE [zs |-> [z1 EXCEPT !.relay = FALSE], ok |-> TRUE]
              ELSE [zs |-> z1, ok |-> TRUE]

\* _safe_stop_zone(zone_id), run by the zone's timer task
SafeStopZoneMutant(zs, zone_id, f) ==
    IF zone_id \notin Zones THEN zs ELSE [zs EXCEPT !.active[zone_id] = NoEntry]
SafeStopZone(zs, zone_id, f) ==
    IF zone_id \notin Zones \/ zs.active[zone_id] = NoEntry THEN zs
    ELSE IF zone_id \in f.pins THEN [zs EXCEPT !.pfault = TRUE, !.raised = @ \cup {"pin"}]
    ELSE
      LET was_last == WasLastActive(zs, zone_id)
          z1 == [zs EXCEPT !.pins[zone_id] = FALSE, !.active[zone_id] = NoEntry]
      IN IF was_last
         THEN IF f.rA THEN [z1 EXCEPT !.rfault = TRUE, !.raised = @ \cup {"relay"}] ELSE [z1 EXCEPT !.relay = FALSE]
         ELSE z1

MinOf(S) == CHOOSE x \in S : \A y \in S : x <= y

\* stop_all_zones, first phase: stop_zone on each id of the snapshot
RECURSIVE StopEach(_, _, _)
StopEach(r, ids, f) ==
    IF ids = {} THEN r
    ELSE LET z == MinOf(ids)
             s == StopZone(r.zs, z, f)
         IN StopEach([zs |-> s.zs, ok |-> r.ok /\ s.ok], ids \ {z}, f)

\* stop_all_zones, second phase: direct write, cancel, delete for what remains
RECURSIVE ForceEach(_, _, _)
ForceEach(r, ids, f) ==
    IF ids = {} THEN r
    ELSE LET z == MinOf(ids)
         IN IF z \in f.pins
            THEN ForceEach([zs |-> [r.zs EXCEPT !.pfault = TRUE, !.raised = @ \cup {"pin"}], ok |-> FALSE],
                           ids \ {z}, f)
            ELSE ForceEach([zs |-> [r.zs EXCEPT !.pins[z] = FALSE,
                                                !.timers = CancelTimer(@, r.zs.active[z].task, z),
                                                !.active[z] = NoEntry],
                            ok |-> r.ok],
                           ids \ {z}, f)

\* stop_all_zones: the answer when nothing is listed as active
StopAllWhenIdle(zs) == [zs |-> zs, ok |-> TRUE]

\* stop_all_zones
StopAllZones(zs, f) ==
    IF ActiveSet(zs) = {} THEN StopAllWhenIdle(zs)
    ELSE
      LET p1 == StopEach([zs |-> zs, ok |-> TRUE], ActiveSet(zs), f)
          p2 == ForceEach(p1, ActiveSet(p1.zs), f)
          z3 == IF f.rB THEN [p2.zs EXCEPT !.rfault = TRUE, !.raised = @ \cup {"relay"}]
                ELSE [p2.zs EXCEPT !.relay = FALSE]
          z4 == [z3 EXCEPT !.active = [z \in Zones |-> NoEntry]]
      IN [zs |-> z4, ok |-> p2.ok /\ ~f.rB]

\* ------------------------------------------------------------------ programs
\* program.json: the steps of each program.  A step is zone_id, duration and
\* whether the duration is stored as a string ("1"): start_zone converts it
\* with int(), the wait arithmetic of execute_program raises on it.
Step(z, d, s) == [zone_id |-> z, duration |-> d, str |-> s]
Steps(p) ==
    CASE p = "1" -> <<Step(0, 1, FALSE), Step(1, 1, FALSE)>>
      [] p = "2" -> <<Step(UnknownZone, 1, FALSE), Step(1, 1, FALSE)>>
      [] p = "3" -> <<Step(0, 1, TRUE)>>

\* ------------------------------------------------------- scheduler / executor
\* Position of a task: pc, the program it executes, the step index, the
\* polls left in the current wait, and history: interrupted (RunState was
\* released under this run by stop_program or reset_program_state) and
\* clean (when this run claimed RunState the active set was empty and the
\* relay de-energized), since (the date on which check_programs called
\* execute_program, where the clock is followed; <<>> otherwise).
IdleTask == [pc |-> "idle", prog |-> Null, step |-> 0, rem |-> 0, interrupted |-> FALSE,
             clean |-> TRUE, since |-> <<>>]

\* What a call of execute_program returned, kept for one state: the task, its
\* program, the result, whether the call had claimed RunState, whether it had
\* been interrupted, whether it called update_last_run_date, and the kinds of
\* output write that raised in the handler.
\* For an operation of the run-state store, mem is the in-memory RunState the
\* operation was called with.  For is_program_due_today, days is the
\* days_since_last_run it computed (NoDays when it computed none).
NoMem == [run |-> FALSE, id |-> Null]
NoDays == -1
NoRet == [task |-> -1, prog |-> Null, result |-> "none", claimed |-> FALSE,
          interrupted |-> FALSE, dated |-> FALSE, raised |-> {}, mem |-> NoMem,
          days |-> NoDays]
\* The same mark for a handler that is no call of execute_program.
Done(w, op) == [w EXCEPT !.ret = [NoRet EXCEPT !.result = op]]
Return(w, t, res, claimed, dated) ==
    [w EXCEPT !.ret = [task |-> t, prog |-> w.tasks[t].prog, result |-> res,
                       claimed |-> claimed, interrupted |-> w.tasks[t].interrupted,
                       dated |-> dated, raised |-> {}, mem |-> NoMem, days |-> NoDays],
              !.tasks[t] = IdleTask]

Driving(tk) == tk.pc \in {"step_wait", "delay_wait"}

\* Everything a handler can change, as one value.
World == [zs |-> ZoneState, st |-> CurStore, pmr |-> pm_running, pmi |-> pm_id,
          lrd |-> last_run_date, tasks |-> tasks, ret |-> NoRet]

SetWorld(w) ==
    /\ SetZoneState(w.zs)
    /\ ps_running' = w.st.run
    /\ ps_id' = w.st.id
    /\ state_file' = w.st.file
    /\ pm_running' = w.pmr
    /\ pm_id' = w.pmi
    /\ last_run_date' = w.lrd
    /\ tasks' = w.tasks
    /\ ret' = [w.ret EXCEPT !.raised = w.zs.raised]

Load(w) == [w EXCEPT !.st = LoadProgramState(@)]
Save(w) == [w EXCEPT !.st = SaveProgramState(@)]

\* execute_program, the order of the two writes of the finally block
CleanupOrderMutant(w, f) ==
    LET w1 == Save([w EXCEPT !.pmr = FALSE])
    IN [w1 EXCEPT !.zs = StopAllZones(w1.zs, f).zs]
CleanupOrder(w, f) ==
    LET w1 == Save([w EXCEPT !.pmr = FALSE, !.pmi = Null])
    IN [w1 EXCEPT !.zs = StopAllZones(w1.zs, f).zs]

\* execute_program, finally: release RunState, save, stop_all_zones; return
Cleanup(w, t, res, f) ==
    Return(CleanupOrder(w, f), t, res, TRUE, res = "ok")

\* update_last_run_date
UpdateLastRunDate(w, t) ==
    [w EXCEPT !.lrd[w.tasks[t].prog] = today]

\* execute_program, FASE 4: the test that decides success
RunCompleted(w) == w.pmr

\* execute_program, FASE 4 and 5
Finish(w, t, f) ==
    IF RunCompleted(w)
    THEN Cleanup(UpdateLastRunDate(w, t), t, "ok", f)
    ELSE Cleanup(w, t, "stopped", f)

\* execute_program, the for loop from step i up to the next await
RECURSIVE ExecFrom(_, _, _, _)
ExecFrom(w, t, i, f) ==
    LET steps == Steps(w.tasks[t].prog)
        w1 == Load(w)
    IN IF i > Len(steps) THEN Finish(w, t, f)
       ELSE IF ~w1.pmr THEN Finish(w1, t, f)
       ELSE \* start_zone reloads the state, then tests zone_manager's flag
            LET w2 == Load(w1)
                s == StartZone(w2.zs, zm_running, steps[i].zone_id, steps[i].duration, t, f)
                w3 == [w2 EXCEPT !.zs = s.zs]
            IN IF ~s.ok THEN ExecFrom(w3, t, i + 1, f)
               ELSE IF steps[i].str THEN Cleanup(w3, t, "error", f)
               ELSE [w3 EXCEPT !.tasks[t].pc = "step_wait", !.tasks[t].step = i,
                               !.tasks[t].rem = steps[i].duration * PollsPerMinute]

\* execute_program, the gate on RunState
AlreadyRunningMutant(w) == FALSE
AlreadyRunning(w) == w.pmr

\* execute_program, FASE 2: 'for retry in range(3)'
VerifyAttempts == 3

\* execute_program, FASE 2: the test of one verification
StatePersisted(w, p) == w.pmr /\ w.pmi = p

\* execute_program, FASE 2 from attempt retry on: reload, test, and on a
\* failed test set and save the claim again.  Result: the world, the number
\* of reloads made so far and state_persisted.
VerifyFromMutant(w, p, retry) ==
    LET w1 == Load(w)
    IN IF w1.st.file = FileRecord("true", p)
       THEN [w |-> w1, loads |-> retry + 1, persisted |-> TRUE]
       ELSE [w |-> Save([w1 EXCEPT !.pmr = FALSE, !.pmi = Null]), loads |-> retry + 1,
             persisted |-> FALSE]
RECURSIVE VerifyFrom(_, _, _)
VerifyFrom(w, p, retry) ==
    IF retry >= VerifyAttempts THEN [w |-> w, loads |-> retry, persisted |-> FALSE]
    ELSE LET w1 == Load(w)
         IN IF StatePersisted(w1, p)
            THEN [w |-> w1, loads |-> retry + 1, persisted |-> TRUE]
            ELSE VerifyFrom(Save([w1 EXCEPT !.pmr = TRUE, !.pmi = p]), p, retry + 1)

\* execute_program, FASE 1: set the claim and save
Claim(w, p) == Save([w EXCEPT !.pmr = TRUE, !.pmi = p])

\* execute_program from the second stop_all_zones to the first await
ExecClaim(w, t, f) ==
    LET r == StopAllZones(w.zs, f)
    IN IF ~r.ok
       THEN Return([w EXCEPT !.zs = r.zs], t, "failed", FALSE, FALSE)
       ELSE LET w1 == Save([w EXCEPT !.zs = r.zs, !.pmr = TRUE, !.pmi = w.tasks[t].prog,
                                     !.tasks[t].clean =
                                         (ActiveSet(r.zs) = {} /\ ~r.zs.relay)])
                w2 == VerifyFrom(w1, w.tasks[t].prog, 0).w
            IN ExecFrom(w2, t, 1, f)

\* execute_program(program) from its entry to the first await
ExecEnter(w, t, p, f) ==
    LET w0 == [w EXCEPT !.tasks[t] = [IdleTask EXCEPT !.prog = p]]
        w1 == Load(w0)
    IN IF AlreadyRunning(w1)
       THEN Return(w1, t, "rejected", FALSE, FALSE)
       ELSE IF ActiveCount(w1.zs) > 0
       THEN [w1 EXCEPT !.zs = StopAllZones(w1.zs, f).zs, !.tasks[t].pc = "prestop"]
       ELSE ExecClaim(w1, t, f)

MarkInterrupted(tks) ==
    [t \in Tasks |-> IF Driving(tks[t]) THEN [tks[t] EXCEPT !.interrupted = TRUE] ELSE tks[t]]

\* stop_program, the order of its writes (FASE 2, 3, 4)
StopOrder(w, f) ==
    LET w1 == [w EXCEPT !.zs = StopAllZones(w.zs, f).zs]
        w2 == Save([w1 EXCEPT !.pmr = FALSE, !.pmi = Null])
    IN Load(w2)

\* stop_program
StopProgram(w, f) ==
    LET w1 == Load(w)
    IN IF ~w1.pmr THEN w1
       ELSE [StopOrder(w1, f) EXCEPT !.tasks = MarkInterrupted(@)]

\* reset_program_state
ResetProgramStateMutant(w, f) ==
    LET w1 == [w EXCEPT !.zs = StopAllZones(w.zs, f).zs]
    IN [w1 EXCEPT !.pmr = FALSE, !.pmi = Null, !.tasks = MarkInterrupted(@)]
ResetProgramState(w, f) ==
    LET w1 == [w EXCEPT !.zs = StopAllZones(w.zs, f).zs]
        w2 == Save([w1 EXCEPT !.pmr = FALSE, !.pmi = Null])
    IN [w2 EXCEPT !.tasks = MarkInterrupted(@)]

\* is_program_due_today for the recurrence 'giornaliero'
IsProgramDueToday(p) ==
    last_run_date[p] = NoDate \/ today - last_run_date[p] >= 1

\* ------------------------------------------------------------------ schedule
\* A stored program as the scheduler reads it.  last_run_date is the triple
\* of numbers that _get_formatted_date writes as YYYY-MM-DD and that
\* is_program_due_today reads back with split('-') and int(); NeverRun is
\* the missing key.
NeverRun == <<>>
Program(name, months, time, rec, interval, enabled, last) ==
    [name |-> name, months |-> months, activation_time |-> time, recurrence |-> rec,
     interval_days |-> interval, automatic_enabled |-> enabled, last_run_date |-> last]
NoProgram == Program(Null, {}, "", "", 0, FALSE, NeverRun)

Stored(progs) == {p \in DOMAIN progs : progs[p] # NoProgram}

LocalTime(y, mo, d, h, mi) == [year |-> y, month |-> mo, day |-> d, hour |-> h, minute |-> mi]

\* check_program_conflicts(program, programs, exclude_id)
CheckProgramConflictsOffMutant(program, progs, exclude_id) == FALSE
CheckProgramConflictsMutant(program, progs, exclude_id) ==
    IF program.months = {} THEN FALSE
    ELSE IF program.activation_time = "" THEN FALSE
    ELSE \E pid \in Stored(progs) :
             /\ program.months \cap progs[pid].months # {}
             /\ program.activation_time = progs[pid].activation_time
CheckProgramConflicts(program, progs, exclude_id) ==
    IF program.months = {} THEN FALSE
    ELSE IF program.activation_time = "" THEN FALSE
    ELSE \E pid \in Stored(progs) \ {exclude_id} :
             /\ program.months \cap progs[pid].months # {}
             /\ program.activation_time = progs[pid].activation_time

\* is_program_active_in_current_month: months_map.get(month, 0)
MonthsMap(name) ==
    CASE name = "Gennaio" -> 1 [] name = "Febbraio" -> 2 [] name = "Marzo" -> 3
      [] name = "Aprile" -> 4 [] name = "Maggio" -> 5 [] name = "Giugno" -> 6
      [] name = "Luglio" -> 7 [] name = "Agosto" -> 8 [] name = "Settembre" -> 9
      [] name = "Ottobre" -> 10 [] name = "Novembre" -> 11 [] name = "Dicembre" -> 12
      [] OTHER -> 0

\* is_program_active_in_current_month(program)
IsProgramActiveInCurrentMonth(program, t) ==
    t.month \in {MonthsMap(m) : m \in program.months}

\* _is_leap_year(year)
IsLeapYear(year) == year % 4 = 0 /\ (year % 100 # 0 \/ year % 400 = 0)

\* _day_of_year: days_in_month, with February of a leap year
DaysInMonth(year, i) ==
    IF i = 2 THEN (IF IsLeapYear(year) THEN 29 ELSE 28)
    ELSE IF i \in {4, 6, 9, 11} THEN 30 ELSE 31

\* _day_of_year(year, month, day): day plus the months before
RECURSIVE DaysBefore(_, _)
DaysBefore(year, month) ==
    IF month <= 1 THEN 0 ELSE DaysBefore(year, month - 1) + DaysInMonth(year, month - 1)
DayOfYear(year, month, day) == day + DaysBefore(year, month)

\* is_program_due_today: days_since_last_run
DaysSinceLastRun(last, t) ==
    IF last[1] = t.year
    THEN DayOfYear(t.year, t.month, t.day) - DayOfYear(last[1], last[2], last[3])
    ELSE ((IF IsLeapYear(last[1]) THEN 366 ELSE 365) - DayOfYear(last[1], last[2], last[3]))
         + DayOfYear(t.year, t.month, t.day)

\* is_program_due_today: the test on the recurrence
RecurrenceDue(program, days) ==
    IF program.recurrence = "giornaliero" THEN days >= 1
    ELSE IF program.recurrence = "giorni_alterni" THEN days >= 2
    ELSE IF program.recurrence = "personalizzata"
    THEN days >= (IF program.interval_days <= 0 THEN 1 ELSE program.interval_days)
    ELSE FALSE

\* is_program_due_today(program), at local time t
IsProgramDueOn(program, t) ==
    IF program.last_run_date = NeverRun THEN TRUE
    ELSE RecurrenceDue(program, DaysSinceLastRun(program.last_run_date, t))

\* check_programs: activation_time.split(':') and int() of the two parts;
\* <<>> when the string does not split in two
ActivationParts(time) ==
    CASE time = "06:00" -> <<6, 0>>
      [] time = "6:00" -> <<6, 0>>
      [] time = "06:30" -> <<6, 30>>
      [] time = "07:00" -> <<7, 0>>
      [] time = "00:00" -> <<0, 0>>
      [] time = "23:59" -> <<23, 59>>
      [] OTHER -> <<>>

TimeMatchMutant(parts, t) ==
    \/ t.hour = parts[1] /\ t.minute = parts[2]
    \/ t.hour = parts[1] /\ t.minute = parts[2] - 1

\* check_programs: time_match
TimeMatch(parts, t) ==
    \/ t.hour = parts[1] /\ t.minute = parts[2]
    \/ t.hour = parts[1] /\ t.minute = parts[2] - 1
    \/ parts[2] = 0 /\ t.minute = 59 /\ t.hour = parts[1] - 1

\* check_programs: the decision to start one program at local time t
ShouldStart(program, t) ==
    /\ program.automatic_enabled
    /\ program.activation_time # ""
    /\ ActivationParts(program.activation_time) # <<>>
    /\ TimeMatch(ActivationParts(program.activation_time), t)
    /\ IsProgramActiveInCurrentMonth(program, t)
    /\ IsProgramDueOn(program, t)

\* program.json of the installed system: each program of Steps with a
\* schedule of its own
InstalledPrograms ==
    [p \in ProgIds |->
        Program(p, {"Giugno"},
                CASE p = "1" -> "06:00" [] p = "2" -> "06:30" [] p = "3" -> "07:00",
                "giornaliero", 1, TRUE, NeverRun)]

InstallTime == LocalTime(2024, 6, 1, 6, 0)

\* --------------------------------------------------------------------- actions
\* The state at power-on, but for the hardware's fault budget.
PowerOn ==
    /\ booted = FALSE
    /\ active_zones = [z \in Zones |-> NoEntry]
    /\ zone_pins = [z \in Zones |-> FALSE]
    /\ safety_relay = FALSE
    /\ zone_timers = [i \in TimerIds |-> NoZone]
    /\ relay_fault = FALSE
    /\ pin_fault = FALSE
    /\ ps_running = FALSE
    /\ ps_id = Null
    /\ pm_running = FALSE
    /\ pm_id = Null
    /\ zm_running = FALSE
    /\ state_file \in {FileMissing, FileCorrupt, FileRecord("false", Null),
                       FileRecord("true", "3")}
    /\ tasks = [t \in Tasks |-> IdleTask]
    /\ last_run_date = [p \in ProgIds |-> NoDate]
    /\ today = 1
    /\ programs = InstalledPrograms
    /\ now = InstallTime
    /\ ret = NoRet

Init == PowerOn /\ faulty_ops = 0

\* main(): stop_all_zones, initialize_pins, reset_program_state
Boot ==
    /\ ~booted
    /\ booted' = TRUE
    /\ LET w1 == [World EXCEPT !.zs = StopAllZones(@, NoFault).zs]
           w2 == [w1 EXCEPT !.zs.pins = [z \in Zones |-> FALSE], !.zs.relay = FALSE]
       IN SetWorld(Done(ResetProgramState(w2, NoFault),
                        IF state_file.running = "true" THEN "boot_recovery" ELSE "boot"))
    /\ UNCHANGED <<zm_running, today, programs, now>>

\* web_server.handle_start_zone
ManualStartZone(zone_id, duration, f) ==
    /\ booted
    /\ HasFreeTimer(ZoneState)
    /\ LET w1 == Load(World)
       IN IF w1.st.run
          THEN SetWorld(w1)
          ELSE LET w2 == Load(w1)
               IN SetWorld([w2 EXCEPT !.zs =
                       StartZone(w2.zs, zm_running, zone_id, duration, Manual, f).zs])
    /\ UNCHANGED <<booted, zm_running, today, programs, now>>

\* web_server.handle_stop_zone
ManualStopZone(zone_id, f) ==
    /\ booted
    /\ SetZoneState(StopZone(ZoneState, zone_id, f).zs)
    /\ ret' = [NoRet EXCEPT !.raised = StopZone(ZoneState, zone_id, f).zs.raised]
    /\ UNCHANGED <<booted, ps_running, ps_id, pm_running, pm_id, zm_running, state_file,
                   tasks, last_run_date, today, programs, now>>

\* _zone_timer: the sleep of timer tid ends
TimerFireMutant(tid, f) ==
    /\ booted
    /\ zone_timers[tid] # NoZone
    /\ SetZoneState([ZoneState EXCEPT !.timers[tid] = NoZone])
    /\ ret' = NoRet
    /\ UNCHANGED <<booted, ps_running, ps_id, pm_running, pm_id, zm_running, state_file,
                   tasks, last_run_date, today, programs, now>>
TimerFire(tid, f) ==
    /\ booted
    /\ zone_timers[tid] # NoZone
    /\ LET zs == [ZoneState EXCEPT !.timers[tid] = NoZone]
       IN /\ SetZoneState(SafeStopZone(zs, zone_timers[tid], f))
          /\ ret' = [NoRet EXCEPT !.raised = SafeStopZone(zs, zone_timers[tid], f).raised]
    /\ UNCHANGED <<booted, ps_running, ps_id, pm_running, pm_id, zm_running, state_file,
                   tasks, last_run_date, today, programs, now>>

\* web_server.stop_program_route
StopProgramRoute(f) ==
    /\ booted
    /\ SetWorld(StopProgram(World, f))
    /\ UNCHANGED <<booted, zm_running, today, programs, now>>

\* a caller reloads the state and calls execute_program(p) in task t
ExecuteCall(t, p, f) ==
    /\ SetWorld(ExecEnter(Load(World), t, p, f))
    /\ UNCHANGED <<booted, zm_running, today, programs, now>>

\* web_server.start_program_route
StartProgramRoute(t, p, f) ==
    /\ booted
    /\ t \in ApiTasks
    /\ tasks[t].pc = "idle"
    /\ HasFreeTimer(ZoneState)
    /\ IF Load(World).st.run
       THEN SetWorld(Load(World)) /\ UNCHANGED <<booted, zm_running, today, programs, now>>
       ELSE ExecuteCall(t, p, f)

\* check_programs: program p matches the time, the month and is due
DueCheck(p, f) ==
    /\ booted
    /\ tasks[Sched].pc = "idle"
    /\ IsProgramDueToday(p)
    /\ HasFreeTimer(ZoneState)
    /\ IF Load(World).pmr
       THEN /\ SetWorld([StopProgram(Load(World), f) EXCEPT
                           !.tasks[Sched] = [IdleTask EXCEPT !.pc = "settle", !.prog = p]])
            /\ UNCHANGED <<booted, zm_running, today, programs, now>>
       ELSE ExecuteCall(Sched, p, f)

\* check_programs after the 2 s settle delay
SettleWake(f) ==
    /\ tasks[Sched].pc = "settle"
    /\ HasFreeTimer(ZoneState)
    /\ ExecuteCall(Sched, tasks[Sched].prog, f)

\* execute_program after the 1 s delay that follows the first stop_all_zones
PrestopWake(t, f) ==
    /\ tasks[t].pc = "prestop"
    /\ HasFreeTimer(ZoneState)
    /\ SetWorld(ExecClaim(World, t, f))
    /\ UNCHANGED <<booted, zm_running, today, programs, now>>

\* execute_program: one sleep of the step wait loop ends
StepPoll(t, f) ==
    /\ tasks[t].pc = "step_wait"
    /\ HasFreeTimer(ZoneState)
    /\ LET i == tasks[t].step
           steps == Steps(tasks[t].prog)
           w1 == Load([World EXCEPT !.tasks[t].rem = @ - 1])
       IN IF ~w1.pmr THEN SetWorld(Finish(w1, t, f))
          ELSE IF w1.tasks[t].rem > 0 THEN SetWorld(w1)
          ELSE LET w2 == [w1 EXCEPT !.zs = StopZone(w1.zs, steps[i].zone_id, f).zs]
               IN IF ActivationDelayPolls > 0 /\ i < Len(steps)
                  THEN SetWorld([w2 EXCEPT !.tasks[t].pc = "delay_wait",
                                           !.tasks[t].rem = ActivationDelayPolls])
                  ELSE SetWorld(ExecFrom(w2, t, i + 1, f))
    /\ UNCHANGED <<booted, zm_running, today, programs, now>>

\* execute_program: one sleep of the inter-zone delay loop ends
DelayPoll(t, f) ==
    /\ tasks[t].pc = "delay_wait"
    /\ HasFreeTimer(ZoneState)
    /\ LET w1 == Load([World EXCEPT !.tasks[t].rem = @ - 1])
       IN IF w1.pmr /\ w1.tasks[t].rem > 0 THEN SetWorld(w1)
          ELSE SetWorld(ExecFrom(w1, t, w1.tasks[t].step + 1, f))
    /\ UNCHANGED <<booted, zm_running, today, programs, now>>

\* main.watchdog_loop, memory critical: stop_all_zones, reset_program_state
WatchdogReset(f) ==
    /\ booted
    /\ SetWorld(Done(ResetProgramState([World EXCEPT !.zs = StopAllZones(@, f).zs], f),
                      "watchdog_reset"))
    /\ UNCHANGED <<booted, zm_running, today, programs, now>>

Next ==
    \/ Boot
    \/ \E z \in ZoneIds, d \in Durations, f \in Faults : ManualStartZone(z, d, f)
    \/ \E z \in ZoneIds, f \in Faults : ManualStopZone(z, f)
    \/ \E i \in TimerIds, f \in Faults : TimerFire(i, f)
    \/ \E f \in Faults : StopProgramRoute(f)
    \/ \E t \in ApiTasks, p \in ProgIds, f \in Faults : StartProgramRoute(t, p, f)
    \/ \E p \in ProgIds, f \in Faults : DueCheck(p, f)
    \/ \E f \in Faults : SettleWake(f)
    \/ \E t \in Tasks, f \in Faults : PrestopWake(t, f)
    \/ \E t \in Tasks, f \in Faults : StepPoll(t, f)
    \/ \E t \in Tasks, f \in Faults : DelayPoll(t, f)
    \/ \E f \in Faults : WatchdogReset(f)

Spec == Init /\ [][Next]_vars

\* The program on hardware whose output writes never raise (no operation is
\* left in which a write may raise), with the scheduling asyncio gives a
\* pending _zone_timer task: when its sleep is over it runs.
NoFaultInit == PowerOn /\ faulty_ops = MaxFaultyOps
FairSpec ==
    /\ NoFaultInit /\ [][Next]_vars
    /\ \A i \in TimerIds : WF_vars(TimerFire(i, NoFault))

\* ------------------------------------------- the run-state store on its own
\* program_state.py taken alone: its two globals and the file start in any
\* combination, and its functions are applied in any order.
StoreVars == <<ps_running, ps_id, state_file, ret>>
OtherVars == <<booted, active_zones, zone_pins, safety_relay, zone_timers, relay_fault,
               pin_fault, faulty_ops, pm_running, pm_id, zm_running, tasks,
               last_run_date, today, programs, now>>

StoreInit ==
    /\ booted = FALSE
    /\ active_zones = [z \in Zones |-> NoEntry]
    /\ zone_pins = [z \in Zones |-> FALSE]
    /\ safety_relay = FALSE
    /\ zone_timers = [i \in TimerIds |-> NoZone]
    /\ relay_fault = FALSE
    /\ pin_fault = FALSE
    /\ faulty_ops = 0
    /\ pm_running = FALSE
    /\ pm_id = Null
    /\ zm_running = FALSE
    /\ tasks = [t \in Tasks |-> IdleTask]
    /\ last_run_date = [p \in ProgIds |-> NoDate]
    /\ today = 1
    /\ programs = InstalledPrograms
    /\ now = InstallTime
    /\ ps_running \in BOOLEAN
    /\ ps_id \in ProgIds \cup {Null}
    /\ state_file \in FileStates
    /\ ret = NoRet

SetStore(st, mark, mem) ==
    /\ ps_running' = st.run
    /\ ps_id' = st.id
    /\ state_file' = st.file
    /\ ret' = [NoRet EXCEPT !.result = mark, !.mem = mem]
    /\ UNCHANGED OtherVars

CurMem == [run |-> ps_running, id |-> ps_id]

\* load_program_state(); after a save and a restart, mem stays the saved state
StoreLoad ==
    SetStore(LoadProgramState(CurStore),
             IF ret.result = "save_restart" THEN "save_restart_load"
             ELSE IF state_file.kind = "missing" THEN "load_missing"
             ELSE IF state_file.kind = "corrupt" THEN "load_corrupt"
             ELSE "load_ok",
             IF ret.result = "save_restart" THEN ret.mem ELSE CurMem)

\* save_program_state()
StoreSave == SetStore(SaveProgramState(CurStore), "save", CurMem)

\* a fresh process: the module globals are back at their initial values
StoreRestart ==
    SetStore(Store(FALSE, Null, state_file),
             IF ret.result = "save" THEN "save_restart" ELSE "restart",
             IF ret.result = "save" THEN ret.mem ELSE NoMem)

StoreNext == StoreLoad \/ StoreSave \/ StoreRestart

StoreSpec == StoreInit /\ [][StoreNext]_vars

\* ------------------------------------------- the program store on its own
\* program.json under the four routes that edit it, with no program running.
\* What the requests can carry:
MonthNames == {"Giugno", "Luglio"}
ProgramNames == {"A", "B"}
ActivationTimes == {"", "06:00", "07:00"}
Recurrences == {"giornaliero", "giorni_alterni"}
Candidates ==
    {Program(n, m, t, r, 1, TRUE, NeverRun) :
        n \in ProgramNames, m \in SUBSET MonthNames, t \in ActivationTimes, r \in Recurrences}
\* the requests that are sent: programs named "A" are daily, the others not
Requests ==
    {c \in Candidates : c.recurrence = "giornaliero" <=> c.name = "A"}

\* int(pid) and str(n) on program ids
IdNumber(p) == CASE p = "1" -> 1 [] p = "2" -> 2 [] p = "3" -> 3
IdString(n) == CASE n = 1 -> "1" [] n = 2 -> "2" [] n = 3 -> "3"
MaxOf(S) == CHOOSE x \in S : \A y \in S : x >= y

\* save_program_route: new_id
NewId(progs) ==
    IF Stored(progs) = {} THEN 1 ELSE MaxOf({IdNumber(p) : p \in Stored(progs)}) + 1

\* The system after boot with nothing running and no zone active.
Quiet ==
    /\ booted = TRUE
    /\ active_zones = [z \in Zones |-> NoEntry]
    /\ zone_pins = [z \in Zones |-> FALSE]
    /\ safety_relay = FALSE
    /\ zone_timers = [i \in TimerIds |-> NoZone]
    /\ relay_fault = FALSE
    /\ pin_fault = FALSE
    /\ faulty_ops = 0
    /\ ps_running = FALSE
    /\ ps_id = Null
    /\ pm_running = FALSE
    /\ pm_id = Null
    /\ zm_running = FALSE
    /\ state_file = FileRecord("false", Null)
    /\ tasks = [t \in Tasks |-> IdleTask]
    /\ last_run_date = [p \in ProgIds |-> NoDate]
    /\ today = 1
    /\ ret = NoRet

\* _ensure_programs_file_exists: the store starts as {}
ProgInit ==
    /\ Quiet
    /\ programs = [p \in ProgIds |-> NoProgram]
    /\ now = InstallTime

SetPrograms(progs, mark, pid) ==
    /\ programs' = progs
    /\ ret' = [NoRet EXCEPT !.result = mark]
    /\ UNCHANGED <<booted, zm_running, today, now>>

OnlyStore == UNCHANGED <<ps_running, ps_id, state_file, pm_running, pm_id, active_zones,
                         zone_pins, safety_relay, zone_timers, relay_fault, pin_fault,
                         faulty_ops, tasks, last_run_date>>

\* web_server.save_program_route
SaveProgramRoute(data) ==
    /\ NewId(programs) <= Cardinality(ProgIds)
    /\ Cardinality(Stored(programs)) < MaxPrograms
    /\ OnlyStore
    /\ IF data.months = {} THEN SetPrograms(programs, "refused", Null)
       ELSE IF \E p \in Stored(programs) : programs[p].name = data.name
       THEN SetPrograms(programs, "refused", Null)
       ELSE IF CheckProgramConflicts(data, programs, Null)
       THEN SetPrograms(programs, "conflict", Null)
       ELSE LET new_id == IdString(NewId(programs))
            IN SetPrograms([programs EXCEPT ![new_id] = data], "stored", new_id)

\* program_manager.update_program, called by web_server.update_program_route
UpdateProgram(program_id, data) ==
    IF CheckProgramConflicts(data, programs, program_id)
    THEN OnlyStore /\ SetPrograms(programs, "conflict", program_id)
    ELSE IF program_id \in Stored(programs)
    THEN /\ LET w1 == Load(World)
                w2 == IF w1.pmr /\ w1.pmi = program_id THEN StopProgram(w1, NoFault) ELSE w1
            IN SetWorld(Done(w2, "stored"))
         /\ programs' = [programs EXCEPT ![program_id] = data]
         /\ UNCHANGED <<booted, zm_running, today, now>>
    ELSE OnlyStore /\ SetPrograms(programs, "refused", program_id)

\* program_manager.delete_program, called by web_server.delete_program_route
DeleteProgram(program_id) ==
    IF program_id \in Stored(programs)
    THEN /\ LET w1 == Load(World)
                w2 == IF w1.pmr /\ w1.pmi = program_id THEN StopProgram(w1, NoFault) ELSE w1
            IN SetWorld(Done(w2, "deleted"))
         /\ programs' = [programs EXCEPT ![program_id] = NoProgram]
         /\ UNCHANGED <<booted, zm_running, today, now>>
    ELSE OnlyStore /\ SetPrograms(programs, "refused", program_id)

\* web_server.toggle_program_automatic
ToggleProgramAutomatic(program_id, enable) ==
    /\ OnlyStore
    /\ IF program_id \notin Stored(programs)
       THEN SetPrograms(programs, "refused", program_id)
       ELSE SetPrograms([programs EXCEPT ![program_id].automatic_enabled = enable],
                        "stored", program_id)

ProgNext ==
    \/ \E data \in Requests : SaveProgramRoute(data)
    \/ \E p \in ProgIds, data \in Requests : UpdateProgram(p, data)
    \/ \E p \in ProgIds : DeleteProgram(p)
    \/ \E p \in ProgIds, e \in BOOLEAN : ToggleProgramAutomatic(p, e)

ProgSpec == ProgInit /\ [][ProgNext]_vars

\* ------------------------------------------- editing programs while they run
\* /update_program and /delete_program together with the executor, on
\* hardware whose writes never raise: runs are started by /start_program and
\* by check_programs for stored programs only, and nobody else stops them.
\* The edit a request carries: the same program every other day.
Edited(program) == [program EXCEPT !.recurrence = "giorni_alterni"]

EditNext ==
    \/ Boot
    \/ \E t \in ApiTasks, p \in Stored(programs) : StartProgramRoute(t, p, NoFault)
    \/ \E p \in Stored(programs) : DueCheck(p, NoFault)
    \/ SettleWake(NoFault)
    \/ \E t \in Tasks : StepPoll(t, NoFault)
    \/ \E t \in Tasks : DelayPoll(t, NoFault)
    \/ \E i \in TimerIds : TimerFire(i, NoFault)
    \/ \E p \in ProgIds : booted /\ UpdateProgram(p, Edited(programs[p]))
    \/ \E p \in ProgIds : booted /\ DeleteProgram(p)

EditSpec == NoFaultInit /\ [][EditNext]_vars

\* ------------------------------------------------- the scheduler on its own
\* check_programs and is_program_due_today on one stored program, as the
\* clock moves over a few chosen moments.  The run that check_programs starts
\* is followed in Spec; here it only ends, completed or not.
Moments ==
    << LocalTime(2023, 12, 30, 6, 0),   LocalTime(2023, 12, 31, 5, 59),
       LocalTime(2023, 12, 31, 23, 59), LocalTime(2024, 1, 1, 6, 29),
       LocalTime(2024, 1, 1, 23, 59),
       LocalTime(2024, 1, 2, 6, 0),     LocalTime(2024, 2, 28, 6, 0),
       LocalTime(2024, 2, 29, 6, 1),    LocalTime(2024, 3, 1, 6, 30),
       LocalTime(2024, 12, 31, 6, 0),   LocalTime(2025, 1, 1, 0, 0),
       LocalTime(2025, 1, 2, 6, 0),     LocalTime(2026, 1, 1, 6, 0),
       LocalTime(2026, 1, 1, 6, 30),    LocalTime(2026, 1, 1, 6, 31) >>

MomentIndex(t) == CHOOSE i \in DOMAIN Moments : Moments[i] = t

\* The programs that can be stored: recurrence 'settimanale' is none the
\* code knows, month 'June' none of months_map.
ScheduledPrograms ==
    {Program("A", m, t, r, n, e, NeverRun) :
        m \in {{"Dicembre", "Gennaio"}, {"Febbraio", "June"}},
        t \in {"06:00", "06:30", "00:00", "23:59"},
        r \in {"giornaliero", "giorni_alterni", "personalizzata", "settimanale"},
        n \in {0, 1, 3}, e \in BOOLEAN}

\* A second stored program: every day of January at 06:30.
JanuaryProgram == Program("B", {"Gennaio"}, "06:30", "giornaliero", 1, TRUE, NeverRun)

SchedInit ==
    /\ Quiet
    /\ now = Moments[1]
    /\ \E prog \in ScheduledPrograms :
          /\ prog.recurrence # "personalizzata" => prog.interval_days = 1
          /\ programs = [p \in ProgIds |-> IF p = "1" THEN prog
                                           ELSE IF p = "2" THEN JanuaryProgram
                                           ELSE NoProgram]

SchedUnchanged ==
    UNCHANGED <<booted, active_zones, zone_pins, safety_relay, zone_timers, relay_fault,
                pin_fault, faulty_ops, ps_running, ps_id, pm_running, pm_id, zm_running,
                state_file, last_run_date, today>>

\* _get_formatted_date, as is_program_due_today reads it back
FormattedDate(t) == <<t.year, t.month, t.day>>

\* time passes
Tick ==
    /\ \E i \in DOMAIN Moments : i > MomentIndex(now) /\ now' = Moments[i]
    /\ ret' = NoRet
    /\ UNCHANGED <<programs, tasks>>
    /\ SchedUnchanged

\* is_program_due_today(programs[p])
DueQuery(p) ==
    /\ p \in Stored(programs)
    /\ ret' = [NoRet EXCEPT
                  !.result = IF IsProgramDueOn(programs[p], now) THEN "due" ELSE "not_due",
                  !.prog = p,
                  !.days = IF programs[p].last_run_date = NeverRun THEN NoDays
                           ELSE DaysSinceLastRun(programs[p].last_run_date, now)]
    /\ UNCHANGED <<programs, now, tasks>>
    /\ SchedUnchanged

\* check_programs up to the call of execute_program; auto is the setting
\* automatic_programs_enabled
CheckPrograms(p, auto) ==
    /\ tasks[Sched].pc = "idle"
    /\ p \in Stored(programs)
    /\ IF ~auto
       THEN /\ ret' = [NoRet EXCEPT !.result = "disabled", !.prog = p]
            /\ UNCHANGED tasks
       ELSE IF ShouldStart(programs[p], now)
       THEN /\ ret' = [NoRet EXCEPT !.result = "started", !.prog = p]
            /\ tasks' = [tasks EXCEPT ![Sched] = [IdleTask EXCEPT !.pc = "running", !.prog = p,
                                                                  !.since = FormattedDate(now)]]
       ELSE /\ ret' = [NoRet EXCEPT !.result = "skipped", !.prog = p]
            /\ UNCHANGED tasks
    /\ UNCHANGED <<programs, now>>
    /\ SchedUnchanged

\* execute_program returns to check_programs; a completed run has called
\* update_last_run_date
RunEnds(completed) ==
    /\ tasks[Sched].pc = "running"
    /\ tasks' = [tasks EXCEPT ![Sched] = IdleTask]
    /\ programs' = IF completed /\ tasks[Sched].prog \in Stored(programs)
                    THEN [programs EXCEPT ![tasks[Sched].prog].last_run_date = FormattedDate(now)]
                    ELSE programs
    /\ ret' = [NoRet EXCEPT !.result = IF completed THEN "ok" ELSE "stopped",
                            !.prog = tasks[Sched].prog]
    /\ UNCHANGED now
    /\ SchedUnchanged

SchedNext ==
    \/ Tick
    \/ \E p \in ProgIds : DueQuery(p)
    \/ \E p \in ProgIds, auto \in BOOLEAN : CheckPrograms(p, auto)
    \/ \E completed \in BOOLEAN : RunEnds(completed)

SchedSpec == SchedInit /\ [][SchedNext]_vars

\* ---------------------------------------------------------------- properties
ActiveNow == ActiveSet(ZoneState)
Drivers == {t \in Tasks : Driving(tasks[t])}
Released == ~pm_running /\ pm_id = Null /\ ~ps_running /\ ps_id = Null
            /\ state_file = FileRecord("false", Null)

\* C1: at most one execute invocation is between its RunState claim and its
\* cleanup at any time.
C1_SingleDriver == Cardinality(Drivers) <= 1

\* C2: the number of zones in the active set never exceeds max_active_zones.
C2_Capacity == Cardinality(ActiveNow) <= MaxActiveZones
C2_Witness == Cardinality(ActiveNow) = MaxActiveZones /\ Zones \ ActiveNow # {}

C5_StopAllLeavesAllOff ==
    (ret.result = "watchdog_reset" /\ "relay" \notin ret.raised)
        => (ActiveNow = {} /\ ~safety_relay)

\* C6: a run that was interrupted does not change last_run_date.
C6_NoDateWhenInterrupted == ~(ret.interrupted /\ ret.dated)

\* C7: when an execute invocation that has claimed RunState returns (and no
\* relay write raised in the step that returned), RunState is released in
\* memory and on file, the active set is empty and the safety relay is
\* de-energized.
C7_CleanupLeavesIdle ==
    (ret.claimed /\ "relay" \notin ret.raised)
        => (Released /\ ActiveNow = {} /\ ~safety_relay)

\* C8: the persisted record never says not-running while a zone started by a
\* program is still energized.
C8_ZonesOffBeforeRelease ==
    state_file.running # "true" =>
        \A z \in Zones : ~(zone_pins[z] /\ active_zones[z].by \in Tasks)

\* C9: from a program's first zone start until its cleanup, the RunState seen
\* by the zone controller, by the API handlers and on file is running with
\* the program's id.
C9_ClaimVisible ==
    \A t \in Tasks :
        (tasks[t].pc = "step_wait" /\ Drivers = {t}) =>
            /\ zm_running
            /\ ps_running /\ ps_id = tasks[t].prog
            /\ state_file = FileRecord("true", tasks[t].prog)

\* C10: execute called while RunState is claimed returns failure, claims
\* nothing and changes no zone output, relay, active set or timer.
C10_RejectWhileClaimed ==
    [][\A t \in Tasks, p \in ProgIds, f \in AllFaults :
          (pm_running /\ tasks[t].pc \in {"idle", "settle"} /\ ExecuteCall(t, p, f))
              => /\ ret'.result = "rejected" /\ ret'.task = t
                 /\ UNCHANGED <<active_zones, zone_pins, safety_relay, zone_timers,
                                pm_running, pm_id, ps_running, ps_id, state_file>>]_vars
C10_Witness ==
    /\ ret.result = "rejected" /\ pm_running /\ pm_id # ret.prog
    /\ \E z \in Zones : zone_pins[z] /\ active_zones[z].by \in Tasks

\* C11: while a program holds the RunState claim, a manual start_zone coming
\* from the API changes no zone output, relay, active-set entry or timer.
C11_ManualStartRejected ==
    [][\A z \in ZoneIds, d \in Durations, f \in AllFaults :
          (pm_running /\ ManualStartZone(z, d, f))
              => UNCHANGED <<active_zones, zone_pins, safety_relay, zone_timers>>]_vars

\* C12: whatever record a crash left on file (in particular running with id
\* "3"), when the boot sequence has run its reset, RunState is {false, null}
\* in memory and on file and every zone output and the relay are
\* de-energized; nothing else is served before.
C12_BootResets ==
    /\ ret.result \in {"boot", "boot_recovery"}
           => /\ Released
              /\ ActiveNow = {} /\ ~safety_relay
              /\ \A z \in Zones : ~zone_pins[z]
    /\ ~booted => /\ ret = NoRet /\ \A t \in Tasks : tasks[t] = IdleTask
                  /\ ActiveNow = {} /\ ~safety_relay /\ \A z \in Zones : ~zone_pins[z]
C12_Witness == ret.result = "boot_recovery" /\ Released /\ booted

\* C13: once RunState has been set to not-running under an execution that is
\* waiting in a step or in an inter-zone delay, that execution starts no
\* further zone: it never enters the wait of another step (stated for runs
\* in which no output write has raised).
C13_InterruptedStartsNothing ==
    [][\A t \in Tasks :
          (tasks[t].interrupted /\ tasks'[t].pc = "step_wait" /\ faulty_ops' = 0)
              => /\ tasks[t].pc = "step_wait"
                 /\ tasks'[t].step = tasks[t].step
                 /\ tasks'[t].prog = tasks[t].prog]_vars

\* C14: at the moment execute_program claims RunState the active set is
\* empty and the safety relay is de-energized.
C14_ClaimOnIdleZones == \A t \in Tasks : tasks[t].clean

\* C15: after any sequence of the program's operations, in memory (both
\* modules' RunState) and on file, current_program_id is non-null iff
\* program_running is true.
C15_IdIffRunning ==
    booted =>
        /\ (pm_id # Null) <=> pm_running
        /\ (ps_id # Null) <=> ps_running
        /\ state_file.kind = "ok"
        /\ (state_file.id # Null) <=> (state_file.running = "true")
C15_Witness ==
    /\ pm_running /\ pm_id # Null
    /\ \E t \in Tasks : tasks[t].interrupted /\ tasks[t].prog # pm_id

\* C16: load called with the in-memory RunState running with id P, on a
\* record that says not-running (here the record {false, null} that a release
\* writes), leaves the in-memory RunState running with id P and the record
\* rewritten to running with id P.
C16_RunningBeliefWins ==
    [][(StoreLoad /\ ps_running /\ ps_id # Null
            /\ state_file = FileRecord("false", Null))
          => /\ ps_running' /\ ps_id' = ps_id
             /\ state_file' = FileRecord("true", ps_id)]_vars

\* C17 as claimed: load on a missing or unparsable record leaves the in-memory
\* RunState {false, null} and writes that default to the store.
C17_DefaultOnBadFile ==
    ret.result \in {"load_missing", "load_corrupt"}
        => /\ ~ps_running /\ ps_id = Null
           /\ state_file = FileRecord("false", Null)
\* C17 amended: the same when the in-memory RunState was not running; a
\* running in-memory RunState is kept as it was and written to the store.
C17_DefaultOnBadFileUnlessRunning ==
    ret.result \in {"load_missing", "load_corrupt"}
        => IF ret.mem.run
           THEN /\ ps_running /\ ps_id = ret.mem.id
                /\ state_file = FileRecord("true", ret.mem.id)
           ELSE /\ ~ps_running /\ ps_id = Null
                /\ state_file = FileRecord("false", Null)
C17_Witness ==
    /\ ret.result = "load_missing" /\ ret.mem.run /\ ret.mem.id = "3"
    /\ ps_running /\ state_file = FileRecord("true", "3")

\* C18: after load, for every content of the record, the in-memory
\* current_program_id is null whenever program_running is false (stated for
\* loads called with the in-memory RunState {false, null}, on a record that
\* says not-running).
C18_NoIdWhenNotRunning ==
    (ret.result = "load_ok" /\ ret.mem = NoMem /\ state_file.running = "false")
        => (~ps_running => ps_id = Null)

\* C19: after save the record equals the RunState save was called with, and a
\* load from a fresh process returns exactly that state.
C19_SaveRoundTrip ==
    /\ ret.result = "save"
           => state_file = FileRecord(IF ret.mem.run THEN "true" ELSE "false", ret.mem.id)
    /\ ret.result = "save_restart_load"
           => ps_running = ret.mem.run /\ ps_id = ret.mem.id
C19_Witness ==
    ret.result = "save_restart_load" /\ ps_running /\ ps_id = "3" /\ ret.mem.id = "3"

\* C20: absent hardware faults, every activation of a zone ends: the zone's
\* entry, made by a successful start together with its single-shot timer, is
\* eventually removed and the output de-energized (by the timer if nothing
\* else), or replaced by a later start of the zone.
C20_ActivationEnds ==
    \A z \in Zones, i \in TimerIds :
        (active_zones[z].task = i)
            ~> (active_zones[z].task # i /\ (zone_pins[z] <=> z \in ActiveNow))
C20_Witness ==
    /\ ~relay_fault /\ ~pin_fault
    /\ \E z \in Zones : /\ zone_pins[z] /\ active_zones[z].by = Manual
                          /\ zone_timers[active_zones[z].task] = z
    /\ \A t \in Tasks : tasks[t].pc = "idle"

C22_StopAllSweepsEveryOutput ==
    (ret.result = "watchdog_reset" /\ ret.raised = {})
        => \A z \in Zones : ~zone_pins[z]

\* C23: for a zone id that is not configured, start_zone and stop_zone answer
\* failure and change no zone output, relay, active-set entry or timer: in
\* every state of the program, whoever calls (the API or a program run),
\* whatever the duration and whatever the hardware would do, both return
\* the zone state they were given.
C23_UnknownZoneUntouched ==
    \A d \in Durations, f \in AllFaults, by \in Tasks \cup {Manual} :
        /\ StartZone(ZoneState, zm_running, UnknownZone, d, by, f)
               = [zs |-> ZoneState, ok |-> FALSE]
        /\ StopZone(ZoneState, UnknownZone, f) = [zs |-> ZoneState, ok |-> FALSE]
\* A run of program "2" has got past its first step, whose zone is not
\* configured, and waits in the second with nothing else energized.
C23_Witness ==
    \E t \in Tasks :
        /\ tasks[t].prog = "2" /\ tasks[t].pc = "step_wait" /\ tasks[t].step = 2
        /\ ActiveNow = {1} /\ zone_pins[1] /\ ~zone_pins[0] /\ safety_relay
        /\ faulty_ops = 0

\* C24: for every configured zone and every state of the program, a second
\* stop_zone right after a first one (no output write raising) succeeds and
\* leaves the zone outputs, the relay, the active set and the timers as the
\* first call left them.
C24_StopTwiceIsStopOnce ==
    \A z \in Zones :
        LET once == StopZone(ZoneState, z, NoFault)
            twice == StopZone(once.zs, z, NoFault)
        IN once.ok /\ twice.ok /\ twice.zs = once.zs
\* The first stop has work to do: the zone is listed with its timer pending,
\* it is the last one, and the stop de-energizes output and relay.
C24_Witness ==
    \E z \in Zones :
        /\ ActiveNow = {z} /\ zone_pins[z] /\ safety_relay
        /\ zone_timers[active_zones[z].task] = z
        /\ LET once == StopZone(ZoneState, z, NoFault)
           IN /\ ~once.zs.relay /\ ~once.zs.pins[z] /\ ActiveSet(once.zs) = {}
              /\ \A i \in TimerIds : once.zs.timers[i] # z
              /\ StopZone(once.zs, z, NoFault) = once

\* C29: execute_program reports success and advances last_run_date only if
\* every step's zone was started; in particular never for a program one of
\* whose steps names a zone that is not configured, which start_zone can
\* never start.
C29_SuccessOnlyIfEveryStepRan ==
    (ret.result = "ok" \/ ret.dated)
        => \A i \in DOMAIN Steps(ret.prog) : Steps(ret.prog)[i].zone_id \in Zones

\* Two stored programs that share a month and have equal activation_time
\* strings.
Clash(p, q) ==
    /\ programs[p].months \cap programs[q].months # {}
    /\ programs[p].activation_time = programs[q].activation_time

\* C25 as claimed: after any sequence of create, update, delete and toggle
\* requests, no two stored programs share a month and have the same
\* activation time.
C25_NoTwoProgramsClash ==
    \A p, q \in Stored(programs) : p # q => ~Clash(p, q)
\* C25 amended: the same for stored programs that have an activation time.
C25_NoTwoTimedProgramsClash ==
    \A p, q \in Stored(programs) :
        (p # q /\ programs[p].activation_time # "") => ~Clash(p, q)
\* Two programs share a month at different times, after an update was
\* refused for a conflict.
C25_Witness ==
    /\ ret.result = "conflict"
    /\ \E p, q \in Stored(programs) :
          /\ p # q /\ programs[p].months \cap programs[q].months # {}
          /\ programs[p].activation_time = "06:00" /\ programs[q].activation_time = "07:00"
          /\ programs[p].recurrence # programs[q].recurrence

\* Some stored program other than exclude_id shares a month with the
\* candidate and has an activation_time string equal to the candidate's.
Overlaps(c, exclude_id) ==
    \E p \in Stored(programs) \ {exclude_id} :
        /\ c.months \cap programs[p].months # {}
        /\ c.activation_time = programs[p].activation_time

\* C26 as claimed: for every candidate, every stored set of programs and
\* every exclude_id, check_program_conflicts reports a conflict iff some
\* stored program other than exclude_id shares a month with the candidate
\* and has exactly the candidate's activation-time string, whatever the
\* recurrences.
C26_ConflictIffOverlap ==
    \A c \in Candidates, ex \in ProgIds \cup {Null} :
        CheckProgramConflicts(c, programs, ex) <=> Overlaps(c, ex)
\* C26 amended: the same for a candidate that has an activation time; a
\* candidate whose activation time is empty never conflicts.
C26_ConflictIffTimedOverlap ==
    \A c \in Candidates, ex \in ProgIds \cup {Null} :
        CheckProgramConflicts(c, programs, ex)
            <=> (c.activation_time # "" /\ Overlaps(c, ex))
\* A request has just been refused for a conflict, and for some candidate of
\* another recurrence than the stored program it collides with, the answer
\* turns on exclude_id.
C26_Witness ==
    /\ ret.result = "conflict"
    /\ \E c \in Candidates, p \in Stored(programs) :
          /\ c.recurrence # programs[p].recurrence
          /\ CheckProgramConflicts(c, programs, Null)
          /\ ~CheckProgramConflicts(c, programs, p)

\* The number of a calendar day (days since 1 March of year 0, by the civil
\* calendar), and the calendar days from a date to a local time.
DayNumber(y, m, d) ==
    LET yy == IF m <= 2 THEN y - 1 ELSE y
        mm == IF m <= 2 THEN m + 9 ELSE m - 3
    IN 365 * yy + (yy \div 4) - (yy \div 100) + (yy \div 400) + ((153 * mm + 2) \div 5) + d
CalendarDays(last, t) == DayNumber(t.year, t.month, t.day) - DayNumber(last[1], last[2], last[3])

\* C28: for a last_run_date not after today, the days_since_last_run that
\* is_program_due_today computes is the number of calendar days between the
\* two dates.
C28_DaysSinceIsCalendarDays ==
    (ret.result \in {"due", "not_due"} /\ ret.days # NoDays)
        => ret.days = CalendarDays(programs[ret.prog].last_run_date, now)

\* C27: is_program_due_today answers true for a program that never ran;
\* otherwise it answers true exactly when the days since the last run are at
\* least 1 for giornaliero, at least 2 for giorni_alterni and at least
\* max(interval_days, 1) for personalizzata, and false for any other recurrence.
Max(a, b) == IF a >= b THEN a ELSE b
RecurrenceRule(program, days) ==
    CASE program.recurrence = "giornaliero" -> days >= 1
      [] program.recurrence = "giorni_alterni" -> days >= 2
      [] program.recurrence = "personalizzata" -> days >= Max(program.interval_days, 1)
      [] OTHER -> FALSE
C27_DueFollowsRecurrence ==
    ret.result \in {"due", "not_due"}
        => LET program == programs[ret.prog]
           IN  ret.result = "due"
                   <=> IF program.last_run_date = NeverRun THEN TRUE
                       ELSE RecurrenceRule(program, CalendarDays(program.last_run_date, now))

\* C30: check_programs starts a program if and only if its automation is
\* enabled, the current month is one of its months, it is due today, and the
\* current hour:minute is its activation time, or one minute before it in the
\* same hour, or xx:59 for an activation time (xx+1):00.
MonthNamesOfYear ==
    << "Gennaio", "Febbraio", "Marzo", "Aprile", "Maggio", "Giugno", "Luglio",
       "Agosto", "Settembre", "Ottobre", "Novembre", "Dicembre" >>
ClockMatches(program, t) ==
    LET at == ActivationParts(program.activation_time)
        clock == <<t.hour, t.minute>>
    IN  /\ at # <<>>
        /\ \/ clock = at
           \/ at[2] >= 1 /\ clock = <<at[1], at[2] - 1>>
           \/ \E xx \in 0 .. 23 : clock = <<xx, 59>> /\ at = <<xx + 1, 0>>
StartConditions(program, t) ==
    /\ program.automatic_enabled
    /\ MonthNamesOfYear[t.month] \in program.months
    /\ IsProgramDueOn(program, t)
    /\ ClockMatches(program, t)
C31_VerifyBoundedAndGoesOn ==
    \A p \in ProgIds :
        LET v == VerifyFrom(Claim(World, p), p, 0)
        IN /\ v.loads \in 1 .. 3
           /\ v.w.pmr /\ v.w.pmi = p
\* A run is in the wait of a step, holding the claim, while the record does
\* not say running.
C31_Witness ==
    \E t \in Tasks :
        /\ tasks[t].pc = "step_wait" /\ pm_running /\ pm_id = tasks[t].prog
        /\ state_file.running # "true"
        /\ \E z \in Zones : zone_pins[z] /\ active_zones[z].by = t

\* C32: when an execution that was stopped or preempted returns through its
\* cleanup while a later-started execution holds the claim, the claim stays
\* with the later execution and the zones the later execution started stay
\* as they are.
C32_CleanupSparesLaterRun ==
    [][\A t, u \in Tasks :
          (/\ t # u
           /\ Driving(tasks[t]) /\ tasks[t].interrupted
           /\ Driving(tasks[u]) /\ ~tasks[u].interrupted
           /\ pm_running /\ pm_id = tasks[u].prog
           /\ tasks'[t].pc = "idle" /\ ret'.task = t /\ ret'.claimed)
              => /\ pm_running' /\ pm_id' = pm_id
                 /\ \A z \in Zones :
                        active_zones[z].by = u
                            => active_zones'[z] = active_zones[z] /\ zone_pins'[z] = zone_pins[z]]_vars

\* C33: while one program is running (a single execution, not stopped, is
\* between its claim and its release), the active set is empty or holds
\* exactly the zone of the step that execution is in.
C33_OnlyTheStepsZoneActive ==
    \A t \in Tasks :
        (/\ Drivers = {t} /\ ~tasks[t].interrupted
         /\ pm_running /\ pm_id = tasks[t].prog)
            => ActiveNow \subseteq {Steps(tasks[t].prog)[tasks[t].step].zone_id}

\* C34: in every state of the program, a start_zone that answers failure,
\* whoever calls it, for whatever zone id and duration and whichever output
\* write raises, returns with the active set and its entries, the pending
\* timers, the zone outputs and the safety relay as they were.
C34_FailedStartChangesNothing ==
    \A z \in ZoneIds, d \in Durations, by \in Tasks \cup {Manual}, f \in AllFaults :
        LET r == StartZone(ZoneState, zm_running, z, d, by, f)
        IN ~r.ok => /\ r.zs.active = active_zones
                    /\ r.zs.timers = zone_timers
                    /\ r.zs.pins = zone_pins
                    /\ r.zs.relay = safety_relay

\* C35: check_programs does not start a program again on the calendar day
\* on which a run of it that check_programs started has ended, however the
\* run ended.
C35_OneStartPerDay ==
    [][~(/\ ret.result \in {"ok", "stopped"}
         /\ ret'.result = "started" /\ ret'.prog = ret.prog
         /\ <<now'.year, now'.month, now'.day>> = <<now.year, now.month, now.day>>)]_vars

\* C36: while a run that check_programs started is executing, the clock does
\* not leave the activation window of another program that is enabled,
\* active this month and due today with the run still executing: the run
\* is preempted and the due program starts in its window.
SameDay(t1, t2) == <<t1.year, t1.month, t1.day>> = <<t2.year, t2.month, t2.day>>
C36_DueProgramPreempts ==
    [][\A p \in ProgIds :
          (/\ p \in Stored(programs)
           /\ tasks[Sched].pc = "running" /\ tasks[Sched].prog # p
           /\ StartConditions(programs[p], now)
           /\ SameDay(now, now') /\ ~ClockMatches(programs[p], now'))
              => tasks'[Sched].pc # "running" \/ tasks'[Sched].prog = p]_vars

\* C37: when a run of a daily program that check_programs started on day D
\* completes, also after midnight, the program is due on day D+1.
C37_DueTheDayAfter ==
    [][\A p \in ProgIds :
          (/\ tasks[Sched].pc = "running" /\ tasks[Sched].prog = p
           /\ p \in Stored(programs) /\ programs[p].recurrence = "giornaliero"
           /\ ret'.result = "ok")
              => \A i \in DOMAIN Moments :
                     CalendarDays(tasks[Sched].since, Moments[i]) = 1
                         => IsProgramDueOn(programs'[p], Moments[i])]_vars

\* C38: an update or a delete of the program that holds the claim returns
\* with every zone off, the relay off and RunState released, and the
\* execution it interrupted never enters the wait of another step.  Under
\* EditSpec nothing but such an edit interrupts a run of the scheduler's task.
C38_EditStopsTheRun ==
    [][/\ \A p \in ProgIds :
            (pm_running /\ pm_id = p /\ programs'[p] # programs[p])
                => /\ ActiveSet([active |-> active_zones']) = {}
                   /\ \A z \in Zones : ~zone_pins'[z]
                   /\ ~safety_relay'
                   /\ ~pm_running' /\ pm_id' = Null
       /\ (tasks[Sched].interrupted /\ tasks'[Sched].pc = "step_wait")
                => /\ tasks[Sched].pc = "step_wait"
                   /\ tasks'[Sched].step = tasks[Sched].step]_vars

\* C39: at every moment the timers pending for a zone are exactly the one
\* recorded in its entry when the zone is active, and none when it is not; no
\* timer of an earlier activation is left, also after stop_all_zones has
\* force-cleared the active set.
C39_OneTimerPerActivation ==
    \A z \in Zones :
        {i \in TimerIds : zone_timers[i] = z}
            = IF z \in ActiveNow THEN {active_zones[z].task} ELSE {}

====
